---------------------------- MODULE Spec2Model ----------------------------
(***************************************************************************)
(* hashmap/chart.py: converts the output of the hashmap benchmark into an  *)
(* html document.  The script reads stdin line by line into a two-level    *)
(* table (benchmark name -> map name -> list of points) and then prints    *)
(* one plotly chart per benchmark name.                                    *)
(*                                                                         *)
(* Text that comes from the input (lines, fields, names, tokens) is        *)
(* modelled as a sequence of one-character strings, so that split, strip,  *)
(* startswith, int(), string concatenation and sorted() are computed on    *)
(* the characters as Python computes them.  A Python dict is modelled as   *)
(* the sequence of its items in insertion order.  A float that results     *)
(* from the true division of two integers is modelled as the exact         *)
(* fraction in lowest terms, <<numerator, denominator>>.                   *)
(***************************************************************************)
EXTENDS Integers, Sequences, FiniteSets

VARIABLES
    input,      \* sys.stdin: the sequence of lines of the run
    pos,        \* index of the next line the for loop of line 17 reads
    mapping,    \* the defaultdict of defaultdicts of lists (line 12)
    pc,         \* "collect", "emit", "done", or "failed" (uncaught exception)
    order,      \* the list sorted(mapping) the loop of line 51 iterates
    idx,        \* index in order of the next benchmark to print
    out         \* sys.stdout: the sequence of things printed so far

vars == <<input, pos, mapping, pc, order, idx, out>>

\* Longest input, in lines.
MaxLines == 2

---------------------------------------------------------------------------
(* Characters and strings *)

TAB == "\t"

\* The characters of the model in increasing code point order.
Chars ==
    << "\t", " ", "+", "-", ".", "/",
       "0", "1", "2", "3", "4", "5", "6", "7", "8", "9", "=",
       "A", "B", "C", "D", "E", "F", "G", "H", "I", "J", "K", "L", "M",
       "N", "O", "P", "Q", "R", "S", "T", "U", "V", "W", "X", "Y", "Z", "_",
       "a", "b", "c", "d", "e", "f", "g", "h", "i", "j", "k", "l", "m",
       "n", "o", "p", "q", "r", "s", "t", "u", "v", "w", "x", "y", "z" >>

Ord(c) == CHOOSE j \in 1..Len(Chars) : Chars[j] = c

Digits == <<"0", "1", "2", "3", "4", "5", "6", "7", "8", "9">>

IsDigit(c) == \E d \in 1..10 : Digits[d] = c

DigitVal(c) == (CHOOSE d \in 1..10 : Digits[d] = c) - 1

\* str.split(sep) for a one-character separator: empty fields are kept.
Split(s, sep) ==
    LET P == {j \in 1..Len(s) : s[j] = sep}
        At(k) == CHOOSE j \in P : Cardinality({q \in P : q < j}) = k - 1
        n == Cardinality(P)
    IN [k \in 1..(n + 1) |->
           SubSeq(s, IF k = 1 THEN 1 ELSE At(k - 1) + 1,
                     IF k = n + 1 THEN Len(s) ELSE At(k) - 1)]

\* str.strip(): the blank of the model is the space.
Strip(s) ==
    LET K == {j \in 1..Len(s) : s[j] # " "}
    IN IF K = {} THEN <<>>
       ELSE SubSeq(s, CHOOSE j \in K : \A q \in K : j <= q,
                      CHOOSE j \in K : \A q \in K : q <= j)

\* str.startswith(p)
StartsWith(s, p) == Len(s) >= Len(p) /\ SubSeq(s, 1, Len(p)) = p

\* p in s
Contains(s, p) ==
    \E j \in 0..(Len(s) - Len(p)) : SubSeq(s, j + 1, j + Len(p)) = p

\* Whether int(t) returns: blanks around, an optional sign, then digits, with
\* single underscores allowed between digits.
IsInt(t) ==
    LET u == Strip(t)
        b == IF u # <<>> /\ u[1] \in {"+", "-"} THEN Tail(u) ELSE u
    IN /\ b # <<>>
       /\ \A j \in 1..Len(b) : IsDigit(b[j]) \/ b[j] = "_"
       /\ IsDigit(b[1])
       /\ IsDigit(b[Len(b)])
       /\ \A j \in 1..(Len(b) - 1) : ~(b[j] = "_" /\ b[j + 1] = "_")

RECURSIVE DigitsVal(_)
DigitsVal(b) ==
    IF b = <<>> THEN 0
    ELSE IF b[Len(b)] = "_" THEN DigitsVal(SubSeq(b, 1, Len(b) - 1))
    ELSE 10 * DigitsVal(SubSeq(b, 1, Len(b) - 1)) + DigitVal(b[Len(b)])

\* The value of int(t) when IsInt(t).
IntVal(t) ==
    LET u == Strip(t)
    IN IF u[1] = "-" THEN 0 - DigitsVal(Tail(u))
       ELSE IF u[1] = "+" THEN DigitsVal(Tail(u))
       ELSE DigitsVal(u)

\* s.strip().split(' ')[0]
FirstToken(s) == Split(Strip(s), " ")[1]

RECURSIVE Gcd(_, _)
Gcd(a, b) == IF b = 0 THEN a ELSE Gcd(b, a % b)

Abs(a) == IF a < 0 THEN 0 - a ELSE a

\* a / b for integers a and b > 0, as the fraction in lowest terms.
TrueDiv(a, b) ==
    LET g == Gcd(Abs(a), b)
    IN <<a \div g, b \div g>>

\* Order of str: by code point, a proper prefix first.
StrLess(a, b) ==
    \E j \in 1..(Len(a) + 1) :
        /\ j <= Len(b)
        /\ SubSeq(a, 1, j - 1) = SubSeq(b, 1, j - 1)
        /\ \/ j = Len(a) + 1
           \/ Ord(a[j]) < Ord(b[j])

---------------------------------------------------------------------------
(* dict and defaultdict, as the sequence of items in insertion order *)

Keys(d) == [j \in 1..Len(d) |-> d[j].key]

HasKey(d, k) == \E j \in 1..Len(d) : d[j].key = k

IndexOf(d, k) == CHOOSE j \in 1..Len(d) : d[j].key = k

\* d[k] of an existing key
Lookup(d, k) == d[IndexOf(d, k)].val

\* The dict after defaultdict.__getitem__(k): a missing key is inserted, last,
\* with the value of the default factory.
Touch(d, k, default) ==
    IF HasKey(d, k) THEN d ELSE Append(d, [key |-> k, val |-> default])

\* As if line 51 iterated the dict itself.
UnsortedKeys(d) == Keys(d)

\* sorted(d): the keys in increasing order.
SortedKeys(d) ==
    LET S == {d[j].key : j \in 1..Len(d)}
    IN [k \in 1..Cardinality(S) |->
           CHOOSE g \in S : Cardinality({h \in S : StrLess(h, g)}) = k - 1]

\* As if lines 28 and 31 called insert(0, point).
PrependPoint(m, benchName, mapName, point) ==
    LET m1 == Touch(m, benchName, <<>>)
        gi == IndexOf(m1, benchName)
        b1 == Touch(m1[gi].val, mapName, <<>>)
        vi == IndexOf(b1, mapName)
    IN [m1 EXCEPT ![gi].val = [b1 EXCEPT ![vi].val = <<point>> \o @]]

\* As if lines 28 and 31 assigned [point].
AssignPoint(m, benchName, mapName, point) ==
    LET m1 == Touch(m, benchName, <<>>)
        gi == IndexOf(m1, benchName)
        b1 == Touch(m1[gi].val, mapName, <<>>)
        vi == IndexOf(b1, mapName)
    IN [m1 EXCEPT ![gi].val = [b1 EXCEPT ![vi].val = <<point>>]]

\* mapping[benchName][mapName].append(point)
AppendPoint(m, benchName, mapName, point) ==
    LET m1 == Touch(m, benchName, <<>>)
        gi == IndexOf(m1, benchName)
        b1 == Touch(m1[gi].val, mapName, <<>>)
        vi == IndexOf(b1, mapName)
    IN [m1 EXCEPT ![gi].val = [b1 EXCEPT ![vi].val = Append(@, point)]]

---------------------------------------------------------------------------
(* collect metric values *)

Benchmark == <<"B","e","n","c","h","m","a","r","k">>

RandomFullInsertsU64 == <<"B","e","n","c","h","m","a","r","k","R","a","n","d","o","m","F","u","l","l","I","n","s","e","r","t","s","I","n","s","e","r","t","s","U","6","4">>

MemoryConsumption == <<"M","e","m","o","r","y","C","o","n","s","u","m","p","t","i","o","n">>

\* As if line 19 tested for fewer than 8 fields only.
SkippedLoose(lineRaw) == Len(lineRaw) < 8 \/ ~StartsWith(lineRaw[1], Benchmark)

\* The test of line 19: the line is passed over.
Skipped(lineRaw) == Len(lineRaw) # 8 \/ ~StartsWith(lineRaw[1], Benchmark)

\* int(...) / (1000 * 1000)
TimeMs(ns) == TrueDiv(ns, 1000 * 1000)

\* As if line 30 divided by 1000 * 1000.
MemoryMBDecimal(bytes) == TrueDiv(bytes, 1000 * 1000)

\* int(...) / (1024 * 1024)
MemoryMB(bytes) == TrueDiv(bytes, 1024 * 1024)

\* 'load=' + lineRaw[4].strip().split(' ')[0]
Load(lineRaw) == <<"l","o","a","d","=">> \o FirstToken(lineRaw[5])

\* As if line 29 compared with ==.
HasMemoryEq(benchName) == benchName = RandomFullInsertsU64

\* As if line 29 looked for 'Benchmark'.
HasMemoryPrefix(benchName) == Contains(benchName, Benchmark)

\* Whether the benchmark gets a point in the memory chart (line 29).
HasMemory(benchName) == Contains(benchName, RandomFullInsertsU64)

\* The iteration ends normally (continue, or the end of the body) with table t.
Completed(t) == [mapping |-> t, raised |-> FALSE]

\* As if the exception were caught and the line dropped.
Swallowed(t) == [mapping |-> t, raised |-> FALSE]

\* An exception leaves the loop with table t: nothing catches the IndexError
\* of lines 23 and 25 or the ValueError of int() in lines 25, 26 and 30.
Raised(t) == [mapping |-> t, raised |-> TRUE]

\* One iteration of the loop of line 17 on table m: the table after it, and
\* whether it raised.
LoopBody(m, line) ==
    LET lineRaw == Split(line, TAB)
        Raise(t) == Raised(t)
        Go(t) == Completed(t)
    IN IF Skipped(lineRaw) THEN Go(m)
       ELSE LET firstRaw == Split(lineRaw[1], "/")
                benchName == firstRaw[1]
            IN IF Len(firstRaw) < 2 THEN Raise(m)
               ELSE LET annotationList == Split(firstRaw[2], "-")
                        mapName == annotationList[1]
                    IN IF Len(annotationList) < 2 THEN Raise(m)
                       ELSE IF ~IsInt(annotationList[2]) THEN Raise(m)
                       ELSE IF ~IsInt(FirstToken(lineRaw[3])) THEN Raise(m)
                       ELSE LET n == IntVal(annotationList[2])
                                time_ms == TimeMs(IntVal(FirstToken(lineRaw[3])))
                                load == Load(lineRaw)
                                m1 == AppendPoint(m, benchName, mapName,
                                                  <<n, time_ms, load>>)
                            IN IF ~HasMemory(benchName) THEN Go(m1)
                               ELSE IF ~IsInt(FirstToken(lineRaw[4])) THEN Raise(m1)
                               ELSE LET memory_bytes ==
                                            MemoryMB(IntVal(FirstToken(lineRaw[4])))
                                    IN Go(AppendPoint(m1, MemoryConsumption, mapName,
                                                      <<n, memory_bytes, load>>))

---------------------------------------------------------------------------
(* print html document *)

\* As if line 63 left the map name out.
SeriesNameBench(benchmark, mapName) == benchmark \o <<"_">>

\* name = benchmark+'_'+mapName
SeriesName(benchmark, mapName) == benchmark \o <<"_">> \o mapName

\* The prints of lines 65 to 71 for every map name of b, in the order of b.
Series(benchmark, b) ==
    [j \in 1..Len(b) |->
        LET mapName == b[j].key
            points == Lookup(b, mapName)
        IN [kind |-> "series",
            var |-> SeriesName(benchmark, mapName),
            name |-> mapName,
            x |-> [p \in 1..Len(points) |-> points[p][1]],
            y |-> [p \in 1..Len(points) |-> points[p][2]],
            text |-> [p \in 1..Len(points) |-> points[p][3]]]]

YNaming(benchmark) ==
    IF benchmark = MemoryConsumption THEN "memory (MB)" ELSE "time (ms)"

\* As if the loop also read mapping["MemoryConsumption"].
FetchMemory(m, benchmark) ==
    Touch(Touch(m, benchmark, <<>>), MemoryConsumption, <<>>)

\* The table after b = mapping[benchmark] (line 52).
Fetch(m, benchmark) == Touch(m, benchmark, <<>>)

\* Everything one iteration of the loop of line 51 prints.
Block(m, benchmark) ==
    LET b == Lookup(Fetch(m, benchmark), benchmark)
        series == Series(benchmark, b)
        names == [j \in 1..Len(series) |-> series[j].var]
    IN <<[kind |-> "div", id |-> benchmark]>>
       \o series
       \o <<[kind |-> "data", var |-> <<"d","a","t","a","_">> \o benchmark, names |-> names],
            [kind |-> "layout", var |-> <<"l","a","y","o","u","t","_">> \o benchmark,
             title |-> benchmark, yaxis |-> YNaming(benchmark)],
            [kind |-> "newPlot", id |-> benchmark,
             data |-> <<"d","a","t","a","_">> \o benchmark,
             layout |-> <<"l","a","y","o","u","t","_">> \o benchmark],
            [kind |-> "enddiv"]>>

---------------------------------------------------------------------------
(* Inputs *)

RECURSIVE Join(_, _)
Join(fields, sep) ==
    IF Len(fields) = 0 THEN <<>>
    ELSE IF Len(fields) = 1 THEN fields[1]
    ELSE fields[1] \o <<sep>> \o Join(Tail(fields), sep)

\* A line of the benchmark's output with the given leading fields.
Row(name, time, mem, load) ==
    Join(<<name, <<"8">>, time, mem, load, <<"x">>, <<"x">>, <<"x">>>>, TAB)

Pool ==
    { Row(<<"B","e","n","c","h","m","a","r","k","R","a","n","d","o","m","F","u","l","l","I","n","s","e","r","t","s","I","n","s","e","r","t","s","U","6","4","/","A","-","1","0","0","0">>, <<"5","0","0","0","0","0"," ","n","s","/","o","p">>,
          <<"4","1","9","4","3","0","4"," ","B","/","o","p">>, <<"0",".","7","5"," ","l","o","a","d">>),
      Row(<<"B","e","n","c","h","m","a","r","k","R","a","n","d","o","m","F","u","l","l","I","n","s","e","r","t","s","I","n","s","e","r","t","s","U","6","4","/","B","-","2","0","0","0">>, <<" "," ","1","5","0","0","0","0","0"," ","n","s","/","o","p">>,
          <<" "," ","2","0","9","7","1","5","2"," ","B","/","o","p">>, <<" "," ","0",".","5"," ","l","o","a","d">>),
      Row(<<"B","e","n","c","h","m","a","r","k","R","a","n","d","o","m","F","u","l","l","I","n","s","e","r","t","s","I","n","s","e","r","t","s","U","6","4","/","A","-","3">>, <<"7"," ","n","s","/","o","p">>,
          <<"x"," ","B","/","o","p">>, <<"0",".","9"," ","l","o","a","d">>),
      Row(<<"B","e","n","c","h","m","a","r","k","R","a","n","d","o","m","F","u","l","l","I","n","s","e","r","t","s","I","n","s","e","r","t","s","U","6","4","B","i","g","/","A","-","5">>, <<"1","0","0","0"," ","n","s","/","o","p">>,
          <<"5","2","4","2","8","8"," ","B","/","o","p">>, <<"0",".","2","5"," ","l","o","a","d">>),
      Row(<<"B","e","n","c","h","m","a","r","k","R","a","n","d","o","m","F","u","l","l","I","n","s","e","r","t","s","I","n","s","e","r","t","s","U","6","4","B","i","g","/","B","-","7">>, <<"9"," ","n","s","/","o","p">>,
          <<"x"," ","B","/","o","p">>, <<"0",".","4"," ","l","o","a","d">>),
      Row(<<"B","e","n","c","h","m","a","r","k","G","e","t","/","A","-","1">>, <<"2","0","0","0","0","0","0"," ","n","s","/","o","p">>, <<"x"," ","B","/","o","p">>, <<"0",".","6"," ","l","o","a","d">>),
      Row(<<"B","e","n","c","h","m","a","r","k","G","e","t","/","A","-","2">>, <<"3","0","0","0","0","0","0"," ","n","s","/","o","p">>, <<"1","0","4","8","5","7","6"," ","B","/","o","p">>, <<"0",".","7"," ","l","o","a","d">>),
      Row(<<"B","e","n","c","h","m","a","r","k","G","e","t","/","A","-","x">>, <<"5"," ","n","s","/","o","p">>, <<"6"," ","B","/","o","p">>, <<"0",".","1"," ","l","o","a","d">>),
      Row(<<"B","e","n","c","h","m","a","r","k","G","e","t","/","A">>, <<"5"," ","n","s","/","o","p">>, <<"6"," ","B","/","o","p">>, <<"0",".","1"," ","l","o","a","d">>),
      Row(<<"B","e","n","c","h","m","a","r","k">>, <<"5"," ","n","s","/","o","p">>, <<"6"," ","B","/","o","p">>, <<"0",".","1"," ","l","o","a","d">>),
      Row(<<"B","e","n","c","h","m","a","r","k","G","e","t","/","A","-","4">>, <<"1",".","5"," ","n","s","/","o","p">>, <<"6"," ","B","/","o","p">>, <<"0",".","1"," ","l","o","a","d">>),
      Row(<<"B","e","n","c","h","m","a","r","k","_","A","/","B","-","1">>, <<"4","0","0","0","0","0","0"," ","n","s","/","o","p">>, <<"6"," ","B","/","o","p">>, <<"0",".","2"," ","l","o","a","d">>),
      Row(<<"B","e","n","c","h","m","a","r","k","/","A","_","B","-","2">>, <<"6","0","0","0","0","0","0"," ","n","s","/","o","p">>, <<"6"," ","B","/","o","p">>, <<"0",".","3"," ","l","o","a","d">>),
      Row(<<"M","e","m","o","r","y","C","o","n","s","u","m","p","t","i","o","n","/","A","-","1">>, <<"5"," ","n","s","/","o","p">>, <<"6"," ","B","/","o","p">>, <<"0",".","1"," ","l","o","a","d">>),
      Join(<<<<"B","e","n","c","h","m","a","r","k","G","e","t","/","A","-","5">>, <<"8">>, <<"5"," ","n","s","/","o","p">>, <<"6"," ","B","/","o","p">>, <<"0",".","1"," ","l","o","a","d">>,
             <<"x">>, <<"x">>>>, TAB),
      Join(<<<<"B","e","n","c","h","m","a","r","k","G","e","t","/","A","-","6">>, <<"8">>, <<"5"," ","n","s","/","o","p">>, <<"6"," ","B","/","o","p">>, <<"0",".","1"," ","l","o","a","d">>,
             <<"x">>, <<"x">>, <<"x">>, <<"x">>>>, TAB),
      <<"P","A","S","S">> }

Inputs == UNION {[1..n -> Pool] : n \in 0..MaxLines}

---------------------------------------------------------------------------
(* The run *)

Init ==
    /\ input \in Inputs
    /\ pos = 1
    /\ mapping = <<>>
    /\ pc = "collect"
    /\ order = <<>>
    /\ idx = 1
    /\ out = <<>>

\* Lines 17 to 31, for one line of stdin.
ReadLine ==
    /\ pc = "collect"
    /\ pos <= Len(input)
    /\ LET r == LoopBody(mapping, input[pos])
       IN /\ mapping' = r.mapping
          /\ pc' = IF r.raised THEN "failed" ELSE "collect"
    /\ pos' = pos + 1
    /\ UNCHANGED <<input, order, idx, out>>

\* Lines 39 to 51: stdin is exhausted; the header, then sorted(mapping).
PrintHeader ==
    /\ pc = "collect"
    /\ pos > Len(input)
    /\ out' = Append(out, [kind |-> "header"])
    /\ order' = SortedKeys(mapping)
    /\ idx' = 1
    /\ pc' = "emit"
    /\ UNCHANGED <<input, pos, mapping>>

\* Lines 52 to 75, for one benchmark.
PrintChart ==
    /\ pc = "emit"
    /\ idx <= Len(order)
    /\ mapping' = Fetch(mapping, order[idx])
    /\ out' = out \o Block(mapping, order[idx])
    /\ idx' = idx + 1
    /\ UNCHANGED <<input, pos, pc, order>>

\* Line 78.
PrintFooter ==
    /\ pc = "emit"
    /\ idx > Len(order)
    /\ out' = Append(out, [kind |-> "footer"])
    /\ pc' = "done"
    /\ UNCHANGED <<input, pos, mapping, order, idx>>

Next == ReadLine \/ PrintHeader \/ PrintChart \/ PrintFooter

Spec == Init /\ [][Next]_vars

---------------------------------------------------------------------------
(* Vocabulary of the properties, read off the input text *)

Fields(line) == Split(line, TAB)

\* Exactly 8 tab-separated fields, the first starting with 'Benchmark'.
Shaped(line) ==
    Len(Fields(line)) = 8 /\ StartsWith(Fields(line)[1], <<"B","e","n","c","h","m","a","r","k">>)

Segments(line) == Split(Fields(line)[1], "/")

GroupOf(line) == Segments(line)[1]

\* The n segment is there and is an integer.
HasN(line) ==
    /\ Len(Segments(line)) >= 2
    /\ Len(Split(Segments(line)[2], "-")) >= 2
    /\ IsInt(Split(Segments(line)[2], "-")[2])

VariantOf(line) == Split(Segments(line)[2], "-")[1]

NOf(line) == IntVal(Split(Segments(line)[2], "-")[2])

NsToken(line) == FirstToken(Fields(line)[3])

BytesToken(line) == FirstToken(Fields(line)[4])

AnnotationOf(line) == <<"l","o","a","d","=">> \o FirstToken(Fields(line)[5])

InMemoryGroup(line) ==
    Contains(GroupOf(line), <<"B","e","n","c","h","m","a","r","k","R","a","n","d","o","m","F","u","l","l","I","n","s","e","r","t","s","I","n","s","e","r","t","s","U","6","4">>)

\* Every number the line is decoded for parses.
Decodes(line) ==
    /\ HasN(line)
    /\ IsInt(NsToken(line))
    /\ InMemoryGroup(line) => IsInt(BytesToken(line))

\* The points of (g, v) in table m; none when the table has no such entry.
Points(m, g, v) ==
    IF HasKey(m, g) /\ HasKey(Lookup(m, g), v) THEN Lookup(Lookup(m, g), v)
    ELSE <<>>

Groups(m) == {m[j].key : j \in 1..Len(m)}

Variants(m, g) ==
    IF HasKey(m, g) THEN {Lookup(m, g)[j].key : j \in 1..Len(Lookup(m, g))}
    ELSE {}

AllVariants(m) == UNION {Variants(m, g) : g \in Groups(m)}

\* The number of records of table m.
Count(m) ==
    Cardinality({t \in Groups(m) \X AllVariants(m) \X (1..(2 * Len(input))) :
                    t[3] <= Len(Points(m, t[1], t[2]))})

CountIn(m, g) ==
    Cardinality({t \in Variants(m, g) \X (1..(2 * Len(input))) :
                    t[2] <= Len(Points(m, g, t[1]))})

IsPrefix(s, t) == Len(s) <= Len(t) /\ SubSeq(t, 1, Len(s)) = s

\* The loop is about to read line input[pos].
Reading == pc = "collect" /\ pos <= Len(input)

Consumed == 1..(pos - 1)

\* point is (n, time in ms, annotation) of the line.
IsTimePoint(point, line) ==
    /\ point[1] = NOf(line)
    /\ point[2] = TrueDiv(IntVal(NsToken(line)), 1000000)
    /\ point[3] = AnnotationOf(line)

\* point is (n, memory in MB, annotation) of the line.
IsMemoryPoint(point, line) ==
    /\ point[1] = NOf(line)
    /\ point[2] = TrueDiv(IntVal(BytesToken(line)), 1048576)
    /\ point[3] = AnnotationOf(line)

---------------------------------------------------------------------------
(* C1 *)

\* C1, as stated: a line adds records to the table if and only if it has
\* exactly 8 tab-separated fields and field 0 starts with 'Benchmark'; every
\* other line adds nothing, raises no error and leaves the table unchanged.
C1_FilterAsStated ==
    [][Reading =>
        LET line == input[pos]
        IN /\ Count(mapping') > Count(mapping) <=> Shaped(line)
           /\ ~Shaped(line) => mapping' = mapping /\ pc' = "collect"]_vars

\* C1, amended: a line adds records if and only if it has exactly 8
\* tab-separated fields, field 0 starts with 'Benchmark', and its n segment
\* and its nanosecond token parse as integers; every line that has not 8
\* fields or not the prefix adds nothing, raises no error and leaves the table
\* unchanged.
C1_Filter ==
    [][Reading =>
        LET line == input[pos]
        IN /\ Count(mapping') > Count(mapping)
                <=> Shaped(line) /\ HasN(line) /\ IsInt(NsToken(line))
           /\ ~Shaped(line) => mapping' = mapping /\ pc' = "collect"]_vars

\* A run that passed over a line of another shape and recorded a line of the
\* shape.
C1_Witness ==
    /\ pc = "collect"
    /\ \E k \in Consumed : ~Shaped(input[k])
    /\ \E k \in Consumed : Shaped(input[k])
    /\ Count(mapping) > 0

---------------------------------------------------------------------------
(* C2 *)

\* The line appended exactly its time point, under its own group and variant.
OneRecord(m, m2, line) ==
    /\ Count(m2) = Count(m) + 1
    /\ CountIn(m2, MemoryConsumption) = CountIn(m, MemoryConsumption)
    /\ Decodes(line) =>
         LET g == GroupOf(line)
             v == VariantOf(line)
             new == Points(m2, g, v)
         IN /\ new # <<>>
            /\ new = Append(Points(m, g, v), new[Len(new)])
            /\ IsTimePoint(new[Len(new)], line)

\* The line appended exactly its time point and its memory point.
TwoRecords(m, m2, line) ==
    /\ Count(m2) = Count(m) + 2
    /\ CountIn(m2, MemoryConsumption) = CountIn(m, MemoryConsumption) + 1
    /\ Decodes(line) =>
         LET g == GroupOf(line)
             v == VariantOf(line)
             new == Points(m2, g, v)
             mem == Points(m2, MemoryConsumption, v)
         IN /\ new # <<>>
            /\ new = Append(Points(m, g, v), new[Len(new)])
            /\ IsTimePoint(new[Len(new)], line)
            /\ mem # <<>>
            /\ mem = Append(Points(m, MemoryConsumption, v), mem[Len(mem)])
            /\ IsMemoryPoint(mem[Len(mem)], line)

\* C2, as stated: every accepted line (8 fields, prefix) of a benchmark whose
\* name contains 'BenchmarkRandomFullInsertsInsertsU64' appends exactly two
\* records, (n, ns/1000000, annotation) under its group and variant and
\* (n, bytes/(1024*1024), annotation) under 'MemoryConsumption' and the same
\* variant; every other accepted line appends exactly one record, and none
\* under 'MemoryConsumption'.
C2_DerivedAsStated ==
    [][Reading /\ Shaped(input[pos]) =>
        IF InMemoryGroup(input[pos])
        THEN TwoRecords(mapping, mapping', input[pos])
        ELSE OneRecord(mapping, mapping', input[pos])]_vars

\* C2, amended: the same, for every accepted line whose n segment, nanosecond
\* token and (for a name that contains the substring) byte token parse as
\* integers.
C2_Derived ==
    [][Reading /\ Shaped(input[pos]) /\ Decodes(input[pos]) =>
        IF InMemoryGroup(input[pos])
        THEN TwoRecords(mapping, mapping', input[pos])
        ELSE OneRecord(mapping, mapping', input[pos])]_vars

\* A line of 2097152 bytes was recorded as 2 MB and 1500000 ns as 1.5 ms, and
\* a line of another benchmark was recorded after it.
C2_Witness ==
    /\ pc = "collect"
    /\ pos = 3
    /\ Points(mapping, MemoryConsumption, <<"B">>) = <<<<2000, <<2, 1>>, <<"l","o","a","d","=","0",".","5">>>>>>
    /\ Points(mapping, RandomFullInsertsU64, <<"B">>) = <<<<2000, <<3, 2>>, <<"l","o","a","d","=","0",".","5">>>>>>
    /\ ~InMemoryGroup(input[2])
    /\ Count(mapping) = 3

---------------------------------------------------------------------------
(* C3 *)

\* An accepted line whose n segment is missing or no integer, or whose
\* nanosecond token is no integer.
BadNumber(line) == Shaped(line) /\ (~HasN(line) \/ ~IsInt(NsToken(line)))

\* C3: when a line of the input is accepted and its n or its nanosecond token
\* does not parse, nothing is ever written and the run has failed once that
\* line has been read, whatever the lines before and after it.
C3_MalformedFails ==
    \A k \in 1..Len(input) :
        BadNumber(input[k]) =>
            /\ out = <<>>
            /\ pc \in {"collect", "failed"}
            /\ pos > k => pc = "failed"

\* A run that failed on such a line after it recorded a valid line.
C3_Witness ==
    /\ pc = "failed"
    /\ pos = 3
    /\ BadNumber(input[2])
    /\ Count(mapping) > 0

---------------------------------------------------------------------------
(* C4 *)

\* C4, as stated: an accepted line whose byte token does not parse makes the
\* run fail with nothing written, whatever the benchmark name.
C4_BytesAsStated ==
    \A k \in 1..Len(input) :
        Shaped(input[k]) /\ ~IsInt(BytesToken(input[k])) =>
            /\ out = <<>>
            /\ pc \in {"collect", "failed"}
            /\ pos > k => pc = "failed"

\* C4, amended: an accepted line whose benchmark name contains
\* 'BenchmarkRandomFullInsertsInsertsU64' and whose byte token does not parse
\* makes the run fail with nothing written.
C4_Bytes ==
    \A k \in 1..Len(input) :
        /\ Shaped(input[k])
        /\ InMemoryGroup(input[k])
        /\ ~IsInt(BytesToken(input[k]))
        => /\ out = <<>>
           /\ pc \in {"collect", "failed"}
           /\ pos > k => pc = "failed"

\* A run that failed on the byte token of such a line, whose n and time had
\* parsed, after it recorded a valid line.
C4_Witness ==
    /\ pc = "failed"
    /\ pos = 3
    /\ Shaped(input[2]) /\ InMemoryGroup(input[2]) /\ HasN(input[2])
    /\ IsInt(NsToken(input[2])) /\ ~IsInt(BytesToken(input[2]))
    /\ Count(mapping) = 2

---------------------------------------------------------------------------
(* Vocabulary of the properties, read off the document *)

\* The places of out where a chart block starts.
DivAt == {j \in 1..Len(out) : out[j].kind = "div"}

\* The places of the series of the block that starts at j.
SeriesOfBlock(j) ==
    {q \in (j + 1)..Len(out) : \A r \in (j + 1)..q : out[r].kind = "series"}

KindAt(kind) == {j \in 1..Len(out) : out[j].kind = kind}

\* What the accepted, decoded line contributes: its records, in order.
Entries(line) ==
    IF Shaped(line) /\ Decodes(line)
    THEN <<[g |-> GroupOf(line), v |-> VariantOf(line),
            point |-> <<NOf(line), TrueDiv(IntVal(NsToken(line)), 1000000),
                        AnnotationOf(line)>>]>>
         \o IF InMemoryGroup(line)
            THEN <<[g |-> <<"M","e","m","o","r","y","C","o","n","s","u","m","p","t","i","o","n">>, v |-> VariantOf(line),
                    point |-> <<NOf(line),
                                TrueDiv(IntVal(BytesToken(line)), 1048576),
                                AnnotationOf(line)>>]>>
            ELSE <<>>
    ELSE <<>>

\* The records of the first k lines, in input order.
RECURSIVE Expected(_)
Expected(k) == IF k = 0 THEN <<>> ELSE Expected(k - 1) \o Entries(input[k])

---------------------------------------------------------------------------
(* C5 *)

\* C5: a finished document has exactly one chart block per group of the
\* table, the blocks in increasing order of group name, and each block has
\* exactly one series per variant of its group, with x, y and text as long as
\* the list of records of that group and variant.
C5_Blocks ==
    pc = "done" =>
        /\ {out[j].id : j \in DivAt} = Groups(mapping)
        /\ Cardinality(DivAt) = Cardinality(Groups(mapping))
        /\ \A i, j \in DivAt : i < j => StrLess(out[i].id, out[j].id)
        /\ \A j \in DivAt :
             LET g == out[j].id
                 S == SeriesOfBlock(j)
             IN /\ {out[q].name : q \in S} = Variants(mapping, g)
                /\ Cardinality(S) = Cardinality(Variants(mapping, g))
                /\ \A q \in S :
                     LET len == Len(Points(mapping, g, out[q].name))
                     IN /\ len > 0
                        /\ Len(out[q].x) = len
                        /\ Len(out[q].y) = len
                        /\ Len(out[q].text) = len

\* A finished document for two input groups read in decreasing order, one of
\* them with a memory series.
C5_Witness ==
    /\ pc = "done"
    /\ Cardinality(DivAt) = 3
    /\ HasKey(mapping, MemoryConsumption)
    /\ StrLess(mapping[2].key, mapping[1].key)

---------------------------------------------------------------------------
(* C6 *)

\* C6: in a finished document the series of a block are in the order in which
\* their variants first occur for the group in the input, and the points of a
\* series are the records of its group and variant in input line order.
C6_Order ==
    pc = "done" =>
        LET tr == Expected(Len(input))
        IN \A j \in DivAt :
             LET g == out[j].id
                 S == SeriesOfBlock(j)
                 Is(i, v) == tr[i].g = g /\ tr[i].v = v
                 First(v) == CHOOSE i \in 1..Len(tr) :
                                 Is(i, v) /\ \A h \in 1..(i - 1) : ~Is(h, v)
             IN /\ \A q \in S : \E i \in 1..Len(tr) : Is(i, out[q].name)
                /\ \A q1, q2 \in S :
                     q1 < q2 => First(out[q1].name) < First(out[q2].name)
                /\ \A q \in S :
                     LET Of(e) == e.g = g /\ e.v = out[q].name
                         pts == SelectSeq(tr, Of)
                     IN /\ out[q].x = [p \in 1..Len(pts) |-> pts[p].point[1]]
                        /\ out[q].y = [p \in 1..Len(pts) |-> pts[p].point[2]]
                        /\ out[q].text = [p \in 1..Len(pts) |-> pts[p].point[3]]

\* A finished document with a series of two different points.
C6_Witness ==
    /\ pc = "done"
    /\ \E q \in KindAt("series") : Len(out[q].x) = 2 /\ out[q].x[1] # out[q].x[2]

---------------------------------------------------------------------------
(* C7 *)

\* Every record under 'MemoryConsumption' has a record of the same variant, n
\* and annotation under a group whose name contains the substring.
MemoryDerived ==
    \A v \in Variants(mapping, MemoryConsumption) :
        LET mem == Points(mapping, MemoryConsumption, v)
        IN \A p \in 1..Len(mem) :
             \E g \in Groups(mapping) :
                 /\ Contains(g, <<"B","e","n","c","h","m","a","r","k","R","a","n","d","o","m","F","u","l","l","I","n","s","e","r","t","s","I","n","s","e","r","t","s","U","6","4">>)
                 /\ \E q \in 1..Len(Points(mapping, g, v)) :
                        /\ Points(mapping, g, v)[q][1] = mem[p][1]
                        /\ Points(mapping, g, v)[q][3] = mem[p][3]

\* C7, as stated: in every state of the extraction every record under
\* 'MemoryConsumption' is derived, and there are as many of them as accepted
\* lines (8 fields, prefix) of groups whose name contains the substring.
C7_MemoryAsStated ==
    /\ MemoryDerived
    /\ CountIn(mapping, MemoryConsumption)
         = Cardinality({k \in Consumed :
                           Shaped(input[k]) /\ InMemoryGroup(input[k])})

\* C7, amended: after every line read, every record under 'MemoryConsumption'
\* is derived, and there are as many of them as accepted lines of such groups
\* whose n segment, nanosecond token and byte token parse.
C7_Memory ==
    /\ MemoryDerived
    /\ CountIn(mapping, MemoryConsumption)
         = Cardinality({k \in Consumed :
                           /\ Shaped(input[k])
                           /\ InMemoryGroup(input[k])
                           /\ Decodes(input[k])})

\* Two memory records derived from lines of two different groups.
C7_Witness ==
    /\ pc = "collect"
    /\ CountIn(mapping, MemoryConsumption) = 2
    /\ Cardinality(Groups(mapping)) = 3

---------------------------------------------------------------------------
(* C8 *)

\* The (group, variant) pairs the line names.
Named(line) ==
    IF Shaped(line) /\ Len(Segments(line)) >= 2
    THEN {<<GroupOf(line), VariantOf(line)>>}
         \cup IF InMemoryGroup(line)
              THEN {<<<<"M","e","m","o","r","y","C","o","n","s","u","m","p","t","i","o","n">>, VariantOf(line)>>}
              ELSE {}
    ELSE {}

\* C8: no step removes a group, a variant or a record or reorders records:
\* every list is a prefix of itself after the step, and the lists of the pairs
\* the line read does not name are unchanged.
C8_Monotonic ==
    [][LET G == Groups(mapping) \cup Groups(mapping')
           V == AllVariants(mapping) \cup AllVariants(mapping')
       IN /\ Groups(mapping) \subseteq Groups(mapping')
          /\ \A g \in G : Variants(mapping, g) \subseteq Variants(mapping', g)
          /\ \A g \in G, v \in V :
               /\ IsPrefix(Points(mapping, g, v), Points(mapping', g, v))
               /\ ~(Reading /\ <<g, v>> \in Named(input[pos]))
                    => Points(mapping', g, v) = Points(mapping, g, v)]_vars

\* Two lines of the same group and variant have been recorded.
C8_Witness ==
    /\ pc = "collect"
    /\ \E g \in Groups(mapping) : \E v \in Variants(mapping, g) :
           /\ Len(Points(mapping, g, v)) = 2
           /\ Points(mapping, g, v)[1] # Points(mapping, g, v)[2]

---------------------------------------------------------------------------
(* C9 *)

\* C9: nothing is written, the header included, before the last line has
\* been read, and from the first write on the table does not change.
C9_Batch ==
    [][/\ out' # <<>> => pos' > Len(input') /\ pc' \in {"emit", "done"}
       /\ out' # out => mapping' = mapping
       /\ out # <<>> => mapping' = mapping]_vars

\* A finished document of a run that read two lines into three groups.
C9_Witness ==
    /\ pc = "done"
    /\ Len(input) >= 2
    /\ Cardinality(Groups(mapping)) = 3
    /\ Len(out) > 2

---------------------------------------------------------------------------
(* C10 *)

\* Distinct groups get distinct container ids, data_ and layout_ names.
GroupNamesDistinct ==
    /\ \A i, j \in DivAt : i # j => out[i].id # out[j].id
    /\ \A i, j \in KindAt("data") : i # j => out[i].var # out[j].var
    /\ \A i, j \in KindAt("layout") : i # j => out[i].var # out[j].var

\* C10, as stated: every series variable is declared once in the document,
\* and distinct groups get distinct container ids, data_ and layout_ names.
C10_NamesAsStated ==
    /\ \A i, j \in KindAt("series") : i # j => out[i].var # out[j].var
    /\ GroupNamesDistinct

\* C10, amended: every series variable is declared once in its chart block,
\* and distinct groups get distinct container ids, data_ and layout_ names.
C10_Names ==
    /\ \A b \in DivAt :
         \A i, j \in SeriesOfBlock(b) : i # j => out[i].var # out[j].var
    /\ GroupNamesDistinct

\* A finished document of two blocks of two series each.
C10_Witness ==
    /\ pc = "done"
    /\ Cardinality(DivAt) = 2
    /\ \A b \in DivAt : Cardinality(SeriesOfBlock(b)) = 2

=============================================================================
